---- MODULE Spec2Model ----
(***************************************************************************)
(* A model of the pacsanini DICOM collection engine: the association       *)
(* life cycle of find, move, send_dicom and echo (pacsanini/net), the      *)
(* Storage SCP server and its reception handler (net/storescp.py), the     *)
(* image records of db/crud.py and the worker/consumer threads of          *)
(* io/base_parser.py.                                                      *)
(*                                                                         *)
(* Four specifications share the variables:                                *)
(*   SpecNet    one call of find, move, send_dicom or echo                 *)
(*   SpecSCP    run/shutdown calls on one StoreSCPServer                   *)
(*   SpecStore  receptions handled by default_store_handle                 *)
(*   SpecParse  one call of parse_dir                                      *)
(*   SpecCall   one call of a function that keeps no state between calls   *)
(***************************************************************************)
EXTENDS Integers, Sequences, FiniteSets, TLC

(***************************************************************************)
(* Bounds of the model.                                                    *)
(***************************************************************************)
\* datetime resolution: instants per calendar day
TicksPerDay == 2
\* the latest calendar day an end_date may name (start dates are on day 1)
MaxDay == 18
\* letters of ascii_lowercase that are modelled
NLetters == 2
\* responses the remote sends for one request, at most
MaxResponses == 2
\* identifiers in the resources list of move, at most
MaxResources == 2
\* files collected by send_dicom, at most
MaxFiles == 2
\* 20-second polling periods in a day of the move time window
DayLen == 4
\* run and shutdown calls made on one StoreSCPServer, at most
MaxCalls == 4
\* worker threads of parse_dir, at most
MaxThreads == 2
\* files under the directory parse_dir walks, at most
MaxParseFiles == 2
\* C-STORE requests the Storage SCP receives, at most
MaxReceptions == 2
\* decoding, write, database and callback failures met in one run
MaxFaults == 1
\* callbacks configured on the Storage SCP, at most
MaxCallbacks == 1
\* write calls that save_as makes for one file
NChunks == 2
\* characters of an identifier of a dataset, at most
MaxIdLen == 2
\* calls of add_image and add_found_study on one session, at most
MaxCrudCalls == 4
\* records that the query of find2csv yields, at most
MaxRecords == 2

(***************************************************************************)
(* Values.                                                                 *)
(***************************************************************************)
None == "None"

\* DicomNode (models.py): ip and port are optional.
DicomNode == [ip : {None, "10.0.0.1"}, port : {None, "11112"}]

\* DicomNode.has_net_info, as validate_net_info computes it
has_net_info(node) == node.ip # None /\ node.port # None

\* a test of the port that every node passes
has_port_any(node) == TRUE

\* DicomNode.has_port
has_port(node) == node.port # None

\* Status codes (c_move.py, storescp.py)
STATUS_FAILURE == 49152
UNABLE_TO_DECODE == 49685
UNABLE_TO_PROCESS == 49686
UNABLE_TO_RECORD == 49687
SUCCESS == 0
\* a status the remote returns while sub-operations are pending
PENDING == 65280

\* A status Dataset as a response carries it: <<>> is the empty Dataset (falsy),
\* <<code>> a Dataset with a Status element (truthy).
Statuses == {<<>>, <<PENDING>>, <<SUCCESS>>}
truthy(ds) == ds # <<>>

\* datetime arithmetic: an instant is day * TicksPerDay + tick
days(n) == n * TicksPerDay
\* strftime("%Y%m%d"): the calendar day of an instant
strftime(dt) == dt \div TicksPerDay

\* date_increment = timedelta(days=15)
date_increment == days(15)

\* ascii_lowercase, by position
ascii_lowercase == 1 .. NLetters

VARIABLES
    \* ---- SpecNet: the arguments of the call under study
    op,             \* "find", "move", "send_dicom" or "echo"
    local_node, called_node,
    start_date,     \* find: start_date
    resources,      \* move: the identifiers to move
    start_time,     \* move: start_time, <<>> for None, else <<time of day>>
    end_time,       \* move: end_time
    dcm_files,      \* send_dicom: for each collected path, whether it decodes
    \* ---- SpecNet: the frame of the generator / function
    pc,             \* position in the body
    exc,            \* the exception that left the body ("" if none)
    end_date,       \* find: end_date, <<>> for None, else <<instant>>
    current_date,   \* find: loop variable
    requested_date, \* find: <<first day, last day>> of the window requested
    char,           \* find: position of the current letter in ascii_lowercase
    windows,        \* find: the windows requested so far
    dest_node,      \* move, send_dicom: dest_node, <<>> for None, else <<node>>
    move_config,    \* move: the validated MoveConfig
    idx,            \* move, send_dicom: position in resources / dcm_files
    now,            \* the time of day, in polling periods
    assoc,          \* the Association the frame holds (id 0: None)
    prev_assoc,     \* the Association the frame held before the last associate()
    nAssoc,         \* calls of ae.associate so far
    nOpen,          \* associations established and not yet released
    nResp,          \* responses received for the current request
    nYield,         \* values yielded for the current request
    lastYield,      \* the last value yielded
    attempted,      \* what each call of ae.associate was made for
    sent,           \* requests sent over an established association
    \* ---- the StoreSCPServer instance (SpecNet: move's; SpecSCP)
    scp,            \* self.scp: 0 for None, else the listener it holds
    listeners,      \* the listeners that are running
    nListeners,     \* listeners started so far
    calls,          \* SpecSCP: the calls made so far, with their effect
    \* ---- SpecParse: the arguments of parse_dir
    nb_threads,
    src_files,      \* for each file under src, whether its parse succeeds
    \* ---- SpecParse: the main thread, the workers and the consumer
    p_pc,           \* position of parse_dir
    p_exc,          \* the exception parse_dir raises ("" if none)
    nEnqueued,      \* paths put on the worker queue so far
    worker_queue, consumer_queue,
    stop_working, stop_consuming,
    w_pc,           \* position of each worker thread
    w_file,         \* the path each worker took from the worker queue
    c_pc,           \* position of the consumer thread
    c_result,       \* the result the consumer took from the consumer queue
    produced,       \* results the workers put on the consumer queue
    sunk,           \* results passed to the callback, in call order
    \* ---- SpecStore: the configuration of the handler
    sort_by,        \* "PATIENT", "STUDY" or "IMAGE"
    has_session,    \* db_session is not None
    callbacks,      \* the callbacks, by number (<<>>: None or an empty list)
    \* ---- SpecStore: the disk, the database and the handlers
    disk,           \* the files: path |-> the chunks written
    db,             \* the committed rows of each table
    nReceptions,    \* C-STORE events delivered so far
    h_pc,           \* position of each handler
    h_ds,           \* the dataset each handler decoded
    h_written,      \* chunks each handler has written to its file
    h_cb,           \* the callback each handler calls next
    h_started,      \* how many receptions had ended when this one began
    log,            \* the receptions that ended, in order, with their status
    \* ---- SpecCall: one call of a function
    call,           \* the function that is called
    arg,            \* its arguments
    ret             \* <<>> before it returns, then <<what it returned>>

inputs == <<op, local_node, called_node, start_date, resources, start_time,
            end_time, dcm_files>>
findFrame == <<end_date, current_date, requested_date, char, windows>>
moveFrame == <<dest_node, move_config, idx, now>>
assocVars == <<assoc, prev_assoc, nAssoc, nOpen>>
respVars == <<nResp, nYield, lastYield>>
logVars == <<attempted, sent>>
scpVars == <<scp, listeners, nListeners>>

netVars == <<inputs, pc, exc, findFrame, moveFrame, assocVars, respVars,
             logVars>>

parseVars == <<nb_threads, src_files, p_pc, p_exc, nEnqueued, worker_queue,
               consumer_queue, stop_working, stop_consuming, w_pc, w_file,
               c_pc, c_result, produced, sunk>>

storeVars == <<sort_by, has_session, callbacks, disk, db, nReceptions, h_pc,
               h_ds, h_written, h_cb, h_started, log>>

callVars == <<call, arg, ret>>

vars == <<netVars, scpVars, calls, parseVars, storeVars, callVars>>

\* what the actions of each specification leave alone
notNet == <<calls, parseVars, storeVars, callVars>>
notSCP == <<netVars, parseVars, storeVars, callVars>>
notParse == <<netVars, scpVars, calls, storeVars, callVars>>
notStore == <<netVars, scpVars, calls, parseVars, callVars>>
notCall == <<netVars, scpVars, calls, parseVars, storeVars>>

(***************************************************************************)
(* Associations (pynetdicom.Association as the callers use it).            *)
(***************************************************************************)
NoAssoc == [id |-> 0, is_established |-> FALSE, is_alive |-> FALSE,
            was_established |-> FALSE, released |-> 0]

\* ae.associate(...) returned: established, or not (rejected, aborted, no
\* answer).  The thread of an association that was not established may or may
\* not have ended when the caller looks at it.  A node without ip or port
\* cannot be reached.
Associations(id, node) ==
    {[id |-> id, is_established |-> TRUE, is_alive |-> TRUE,
      was_established |-> TRUE, released |-> 0] : x \in {1} \cap
                                       (IF has_net_info(node) THEN {1} ELSE {})}
    \cup
    {[id |-> id, is_established |-> FALSE, is_alive |-> al,
      was_established |-> FALSE, released |-> 0] : al \in BOOLEAN}

\* assoc.release()
release(a) == [a EXCEPT !.is_established = FALSE, !.is_alive = FALSE,
                        !.released = @ + 1]

\* the number of open associations once a became b
OpenAfter(a, b, n) == IF a.is_established /\ ~ b.is_established THEN n - 1 ELSE n

(***************************************************************************)
(* StoreSCPServer.run and shutdown (storescp.py).                          *)
(***************************************************************************)
\* a run that does not look at the listener it holds
run_unguarded(s, ls, n) ==
    {<<n + 1, ls \cup {n + 1}, n + 1, "">>, <<s, ls, n, "OSError">>}

\* lines 179-203, block=False: RuntimeError if a listener is held; otherwise
\* the listener is started and kept, unless makedirs or start_server raises.
\* The result is <<scp, listeners, nListeners, exception>>.
run(s, ls, n) ==
    IF s # 0 THEN {<<s, ls, n, "RuntimeError">>}
    ELSE {<<n + 1, ls \cup {n + 1}, n + 1, "">>, <<s, ls, n, "OSError">>}

\* a shutdown that leaves the listener running
shutdown_nothing(s, ls) == <<s, ls>>

\* lines 205-210
shutdown(s, ls) == IF s # 0 THEN <<0, ls \ {s}>> ELSE <<s, ls>>

(***************************************************************************)
(* find (c_find.py).                                                       *)
(***************************************************************************)
\* find's finally clause without the release
find_finally_leak(a) == a

\* lines 146-148: finally: if assoc.is_alive(): assoc.release()
find_finally(a) == IF a.is_alive THEN release(a) ELSE a

\* lines 113-116
find_upper_date(cur, end) ==
    IF cur + date_increment >= end THEN end ELSE cur + date_increment

\* lines 118-124: the StudyDate that is requested, as <<first day, last day>>
find_requested_date(cur, end) ==
    IF cur = end THEN <<strftime(cur), strftime(cur)>>
    ELSE <<strftime(cur), strftime(find_upper_date(cur, end))>>

\* the validation without the comparison of the dates
find_valid_noDates(called, start, endArg) == has_net_info(called)

\* lines 94-104: the validation at the head of the generator body
find_valid(called, start, endArg) ==
    /\ has_net_info(called)
    /\ ~ (endArg # <<>> /\ endArg[1] < start)

\* The first next() on the generator runs the body up to the loop.
Find_Start ==
    /\ UNCHANGED notNet
    /\ op = "find" /\ pc = "start"
    /\ IF find_valid(called_node, start_date, end_date)
       THEN /\ end_date' = IF end_date = <<>> THEN <<start_date>> ELSE end_date
            /\ current_date' = start_date
            /\ pc' = "window"
            /\ exc' = exc
       ELSE /\ pc' = "raised"
            /\ exc' = "ValueError"
            /\ UNCHANGED <<end_date, current_date>>
    /\ UNCHANGED <<inputs, requested_date, char, windows, moveFrame, assocVars,
                   respVars, logVars, scpVars>>

\* lines 112-124: the while test and the window of this iteration
Find_Window ==
    /\ UNCHANGED notNet
    /\ op = "find" /\ pc = "window"
    /\ IF current_date <= end_date[1]
       THEN /\ requested_date' = find_requested_date(current_date, end_date[1])
            /\ windows' = Append(windows, requested_date')
            /\ char' = 1
            /\ pc' = "letter"
       ELSE /\ pc' = "done"
            /\ UNCHANGED <<requested_date, windows, char>>
    /\ UNCHANGED <<inputs, exc, end_date, current_date, moveFrame, assocVars,
                   respVars, logVars, scpVars>>

\* a scan that ends after the first letter of a window
find_next_pc_stop(c) == IF c = 1 THEN "done" ELSE "window"

\* line 126 and line 150: the next letter, or the next window after the last
find_next_pc(c) == IF c < NLetters THEN "letter" ELSE "window"
find_next_char(c) == IF c < NLetters THEN c + 1 ELSE c
find_next_date(c, cur) ==
    IF c < NLetters THEN cur ELSE cur + date_increment + days(1)

\* lines 126-139: associate for the current letter.  ae.associate is outside
\* the try: if it raises, the exception leaves the generator.
Find_Associate ==
    /\ UNCHANGED notNet
    /\ op = "find" /\ pc = "letter"
    /\ nAssoc' = nAssoc + 1
    /\ attempted' = Append(attempted, <<requested_date, char>>)
    /\ \/ /\ pc' = "raised"
          /\ exc' = "Exception"
          /\ UNCHANGED <<assoc, prev_assoc, nOpen, respVars, sent, char,
                         current_date>>
       \/ \E a \in Associations(nAssoc + 1, called_node) :
            /\ prev_assoc' = assoc
            /\ nResp' = 0
            /\ nYield' = 0
            /\ exc' = exc
            /\ lastYield' = <<>>
            /\ IF a.is_established
               THEN /\ assoc' = a
                    /\ nOpen' = nOpen + 1
                    /\ sent' = Append(sent, <<requested_date, char>>)
                    /\ pc' = "responses"
                    /\ UNCHANGED <<char, current_date>>
               ELSE /\ assoc' = find_finally(a)
                    /\ nOpen' = nOpen
                    /\ sent' = sent
                    /\ pc' = find_next_pc(char)
                    /\ char' = find_next_char(char)
                    /\ current_date' = find_next_date(char, current_date)
    /\ UNCHANGED <<inputs, end_date, requested_date, windows, moveFrame,
                   scpVars>>

\* lines 140-148: one step of the loop over the responses: a response that is
\* yielded, one that is skipped, the end of the responses, or an exception.
Find_Response ==
    /\ UNCHANGED notNet
    /\ op = "find" /\ pc = "responses"
    /\ \/ /\ nResp < MaxResponses
          /\ \E status \in Statuses, identifier \in BOOLEAN :
               /\ nResp' = nResp + 1
               /\ IF truthy(status) /\ identifier
                  THEN /\ pc' = "yielded"
                       /\ nYield' = nYield + 1
                       /\ lastYield' = <<status, requested_date, char>>
                  ELSE /\ pc' = "responses"
                       /\ UNCHANGED <<nYield, lastYield>>
          /\ UNCHANGED <<assoc, nOpen, char, current_date, exc>>
       \/ /\ assoc' = find_finally(assoc)
          /\ nOpen' = OpenAfter(assoc, assoc', nOpen)
          /\ pc' = find_next_pc(char)
          /\ char' = find_next_char(char)
          /\ current_date' = find_next_date(char, current_date)
          /\ UNCHANGED <<respVars, exc>>
       \/ /\ assoc' = find_finally(assoc)
          /\ nOpen' = OpenAfter(assoc, assoc', nOpen)
          /\ pc' = "raised"
          /\ exc' = "Exception"
          /\ UNCHANGED <<respVars, char, current_date>>
    /\ UNCHANGED <<inputs, end_date, requested_date, windows, moveFrame,
                   prev_assoc, nAssoc, logVars, scpVars>>

\* the caller asks for the next value: the body resumes after the yield
Find_Resume ==
    /\ UNCHANGED notNet
    /\ op = "find" /\ pc = "yielded"
    /\ pc' = "responses"
    /\ UNCHANGED <<inputs, exc, findFrame, moveFrame, assocVars, respVars,
                   logVars, scpVars>>

\* the caller closes the generator while it is suspended at the yield:
\* GeneratorExit is raised there and the finally clause runs
Find_Close ==
    /\ UNCHANGED notNet
    /\ op = "find" /\ pc = "yielded"
    /\ assoc' = find_finally(assoc)
    /\ nOpen' = OpenAfter(assoc, assoc', nOpen)
    /\ pc' = "closed"
    /\ exc' = "GeneratorExit"
    /\ UNCHANGED <<inputs, findFrame, moveFrame, prev_assoc, nAssoc, respVars,
                   logVars, scpVars>>

(***************************************************************************)
(* MoveConfig (config.py).                                                 *)
(***************************************************************************)
\* lines 81-92: both times set or both unset
MoveConfig_valid(st, et) == (st = <<>>) <=> (et = <<>>)

\* lines 102-109: equal times are stored as unset
MoveConfig(st, et) ==
    IF st = et THEN [start_time |-> <<>>, end_time |-> <<>>]
    ELSE [start_time |-> st, end_time |-> et]

\* can_query that lets every time of day pass
can_query_always(cfg, t) == TRUE

\* can_query with the two limits of the window included
can_query_inclusive(cfg, t) ==
    IF cfg.start_time = <<>> \/ cfg.end_time = <<>> THEN TRUE
    ELSE IF cfg.end_time[1] > cfg.start_time[1]
         THEN cfg.start_time[1] <= t /\ t <= cfg.end_time[1]
         ELSE t >= cfg.start_time[1] \/ t <= cfg.end_time[1]

\* lines 111-143, at the time of day t
can_query(cfg, t) ==
    IF cfg.start_time = <<>> \/ cfg.end_time = <<>> THEN TRUE
    ELSE IF cfg.end_time[1] > cfg.start_time[1]
         THEN cfg.start_time[1] < t /\ t < cfg.end_time[1]
         ELSE t > cfg.start_time[1] \/ t < cfg.end_time[1]

(***************************************************************************)
(* move (c_move.py).                                                       *)
(***************************************************************************)
\* lines 157-159: finally: if assoc is not None and assoc.is_alive(): release
move_finally(a) == IF a.id # 0 /\ a.is_alive THEN release(a) ELSE a

\* the outcome of line 156 with the status of a success
move_failure_outcome_ok(uid) == <<SUCCESS, uid>>

\* line 151 and line 156: the synthetic failure outcome
move_failure_outcome(uid) == <<STATUS_FAILURE, uid>>

\* lines 97-98: an unset destination is the local node
move_dest(dest, local) == IF dest = <<>> THEN <<local>> ELSE dest

\* lines 97-116: the first next() runs the body up to the with statement
Move_Start ==
    /\ UNCHANGED notNet
    /\ op = "move" /\ pc = "start"
    /\ dest_node' = move_dest(dest_node, local_node)
    /\ IF ~ has_port(dest_node'[1]) \/ ~ MoveConfig_valid(start_time, end_time)
       THEN /\ pc' = "raised"
            /\ exc' = "ValueError"
            /\ UNCHANGED move_config
       ELSE /\ pc' = "enter"
            /\ exc' = exc
            /\ move_config' = MoveConfig(start_time, end_time)
    /\ UNCHANGED <<inputs, findFrame, idx, now, assocVars, respVars, logVars,
                   scpVars>>

\* lines 118-126: StoreSCPServer(...).__enter__() runs the server
Move_Enter ==
    /\ UNCHANGED notNet
    /\ op = "move" /\ pc = "enter"
    /\ \E r \in run(scp, listeners, nListeners) :
         /\ scp' = r[1]
         /\ listeners' = r[2]
         /\ nListeners' = r[3]
         /\ exc' = r[4]
         /\ pc' = IF r[4] = "" THEN "gate" ELSE "raised"
    /\ idx' = 1
    /\ UNCHANGED <<inputs, findFrame, dest_node, move_config, now, assocVars,
                   respVars, logVars>>

\* line 130: sleep(20): one polling period later
sleep(t) == (t + 1) % DayLen

\* the time of day when the request for a resource has been dealt with:
\* still within the polling period it began in, or in the next one
elapsed(t) == {t, sleep(t)}

\* leaving the with block: __exit__ shuts the server down (lines 166-171)
move_exit_scp == shutdown(scp, listeners)[1]
move_exit_listeners == shutdown(scp, listeners)[2]

\* lines 128-130: the end of the resources, or the time-window gate
Move_Gate ==
    /\ UNCHANGED notNet
    /\ op = "move" /\ pc = "gate"
    /\ IF idx > Len(resources)
       THEN /\ pc' = "done"
            /\ scp' = move_exit_scp
            /\ listeners' = move_exit_listeners
            /\ now' = now
       ELSE IF can_query(move_config, now)
            THEN /\ pc' = "associate"
                 /\ UNCHANGED <<scp, listeners, now>>
            ELSE /\ pc' = "gate"
                 /\ now' = sleep(now)
                 /\ UNCHANGED <<scp, listeners>>
    /\ UNCHANGED <<inputs, exc, findFrame, dest_node, move_config, idx,
                   assocVars, respVars, logVars, nListeners>>

\* lines 132-156: associate for resources[idx]; when the association is not
\* established the failure outcome is yielded
Move_Associate ==
    /\ UNCHANGED notNet
    /\ op = "move" /\ pc = "associate"
    /\ nAssoc' = nAssoc + 1
    /\ attempted' = Append(attempted, resources[idx])
    /\ prev_assoc' = assoc
    /\ nResp' = 0
    /\ \/ /\ assoc' = NoAssoc
          /\ pc' = "raised"
          /\ exc' = "Exception"
          /\ scp' = move_exit_scp
          /\ listeners' = move_exit_listeners
          /\ nYield' = 0
          /\ lastYield' = <<>>
          /\ UNCHANGED <<nOpen, sent>>
       \/ \E a \in Associations(nAssoc + 1, called_node) :
            /\ assoc' = a
            /\ exc' = exc
            /\ UNCHANGED <<scp, listeners>>
            /\ IF a.is_established
               THEN /\ nOpen' = nOpen + 1
                    /\ sent' = Append(sent, resources[idx])
                    /\ pc' = "responses"
                    /\ nYield' = 0
                    /\ lastYield' = <<>>
               ELSE /\ nOpen' = nOpen
                    /\ sent' = sent
                    /\ pc' = "yielded"
                    /\ nYield' = 1
                    /\ lastYield' = move_failure_outcome(resources[idx])
    /\ UNCHANGED <<inputs, findFrame, moveFrame, nListeners>>

\* lines 147-151 and 157-159: one step of the loop over the responses: a
\* response (each is yielded), the end of the responses, or an exception
Move_Response ==
    /\ UNCHANGED notNet
    /\ op = "move" /\ pc = "responses"
    /\ \/ /\ nResp < MaxResponses
          /\ \E status \in Statuses :
               /\ nResp' = nResp + 1
               /\ nYield' = nYield + 1
               /\ lastYield' = IF truthy(status)
                               THEN <<status[1], resources[idx]>>
                               ELSE move_failure_outcome(resources[idx])
          /\ pc' = "yielded"
          /\ UNCHANGED <<assoc, nOpen, idx, exc, scp, listeners, now>>
       \/ /\ assoc' = move_finally(assoc)
          /\ nOpen' = OpenAfter(assoc, assoc', nOpen)
          /\ idx' = idx + 1
          /\ pc' = "gate"
          /\ now' \in elapsed(now)
          /\ UNCHANGED <<respVars, exc, scp, listeners>>
       \/ /\ assoc' = move_finally(assoc)
          /\ nOpen' = OpenAfter(assoc, assoc', nOpen)
          /\ pc' = "raised"
          /\ exc' = "Exception"
          /\ scp' = move_exit_scp
          /\ listeners' = move_exit_listeners
          /\ UNCHANGED <<respVars, idx, now>>
    /\ UNCHANGED <<inputs, findFrame, dest_node, move_config, prev_assoc,
                   nAssoc, logVars, nListeners>>

\* the caller asks for the next value: the body resumes after the yield
\* (line 149/151: back to the responses; line 156: on to the finally clause)
Move_Resume ==
    /\ UNCHANGED notNet
    /\ op = "move" /\ pc = "yielded"
    /\ IF assoc.was_established
       THEN /\ pc' = "responses"
            /\ UNCHANGED <<assoc, nOpen, idx, now>>
       ELSE /\ assoc' = move_finally(assoc)
            /\ nOpen' = OpenAfter(assoc, assoc', nOpen)
            /\ idx' = idx + 1
            /\ pc' = "gate"
            /\ now' \in elapsed(now)
    /\ UNCHANGED <<inputs, exc, findFrame, dest_node, move_config,
                   prev_assoc, nAssoc, respVars, logVars, scpVars>>

\* the caller closes the generator at a yield: the finally clause runs, then
\* __exit__
Move_Close ==
    /\ UNCHANGED notNet
    /\ op = "move" /\ pc = "yielded"
    /\ assoc' = move_finally(assoc)
    /\ nOpen' = OpenAfter(assoc, assoc', nOpen)
    /\ scp' = move_exit_scp
    /\ listeners' = move_exit_listeners
    /\ pc' = "closed"
    /\ exc' = "GeneratorExit"
    /\ UNCHANGED <<inputs, findFrame, moveFrame, prev_assoc, nAssoc, respVars,
                   logVars, nListeners>>

(***************************************************************************)
(* send_dicom (c_store.py).                                                *)
(***************************************************************************)
\* lines 87-89: finally: if assoc is not None: assoc.release()
send_finally(a) == IF a.id # 0 THEN release(a) ELSE a

\* a loop that stays on the same path
send_next_same(i) == i

\* line 81: for path in dcm_files: the position of the next path
send_next(i) == i + 1

\* lines 58-80: collect the files and associate; nothing is sent when the
\* association is not established
Send_Start ==
    /\ UNCHANGED notNet
    /\ op = "send_dicom" /\ pc = "start"
    /\ nAssoc' = nAssoc + 1
    /\ attempted' = Append(attempted, "send_dicom")
    /\ prev_assoc' = assoc
    /\ idx' = 1
    /\ \/ /\ assoc' = NoAssoc
          /\ pc' = "raised"
          /\ exc' = "Exception"
          /\ nOpen' = nOpen
       \/ \E a \in Associations(nAssoc + 1, dest_node[1]) :
            /\ exc' = exc
            /\ IF a.is_established
               THEN /\ assoc' = a
                    /\ nOpen' = nOpen + 1
                    /\ pc' = "files"
               ELSE /\ assoc' = send_finally(a)
                    /\ nOpen' = nOpen
                    /\ pc' = "done"
    /\ UNCHANGED <<inputs, findFrame, dest_node, move_config, now, respVars,
                   sent, scpVars>>

\* lines 81-89: one file: read and sent (the pair is yielded), skipped because
\* it does not decode, or an exception of dcmread or send_c_store; after the
\* last file the association is released
Send_File ==
    /\ UNCHANGED notNet
    /\ op = "send_dicom" /\ pc = "files"
    /\ IF idx > Len(dcm_files)
       THEN /\ assoc' = send_finally(assoc)
            /\ nOpen' = OpenAfter(assoc, assoc', nOpen)
            /\ pc' = "done"
            /\ UNCHANGED <<idx, exc, respVars, sent>>
       ELSE \/ /\ dcm_files[idx]
               /\ sent' = Append(sent, idx)
               /\ \E status \in Statuses :
                    lastYield' = <<idx, status>>
               /\ nYield' = nYield + 1
               /\ pc' = "yielded"
               /\ UNCHANGED <<assoc, nOpen, idx, exc, nResp>>
            \/ /\ ~ dcm_files[idx]
               /\ idx' = send_next(idx)
               /\ pc' = "files"
               /\ UNCHANGED <<assoc, nOpen, exc, respVars, sent>>
            \/ /\ assoc' = send_finally(assoc)
               /\ nOpen' = OpenAfter(assoc, assoc', nOpen)
               /\ pc' = "raised"
               /\ exc' = "Exception"
               /\ UNCHANGED <<idx, respVars, sent>>
    /\ UNCHANGED <<inputs, findFrame, dest_node, move_config, now, prev_assoc,
                   nAssoc, attempted, scpVars>>

\* the caller asks for the next pair
Send_Resume ==
    /\ UNCHANGED notNet
    /\ op = "send_dicom" /\ pc = "yielded"
    /\ idx' = send_next(idx)
    /\ pc' = "files"
    /\ UNCHANGED <<inputs, exc, findFrame, dest_node, move_config, now,
                   assocVars, respVars, logVars, scpVars>>

\* the caller closes the generator at the yield
Send_Close ==
    /\ UNCHANGED notNet
    /\ op = "send_dicom" /\ pc = "yielded"
    /\ assoc' = send_finally(assoc)
    /\ nOpen' = OpenAfter(assoc, assoc', nOpen)
    /\ pc' = "closed"
    /\ exc' = "GeneratorExit"
    /\ UNCHANGED <<inputs, findFrame, moveFrame, prev_assoc, nAssoc, respVars,
                   logVars, scpVars>>

(***************************************************************************)
(* echo (c_echo.py).                                                       *)
(***************************************************************************)
\* lines 47-54: the check of the called node, then the association
Echo_Start ==
    /\ UNCHANGED notNet
    /\ op = "echo" /\ pc = "start"
    /\ IF ~ has_net_info(called_node)
       THEN /\ pc' = "raised"
            /\ exc' = "ValueError"
            /\ UNCHANGED <<assocVars, attempted, lastYield>>
       ELSE /\ nAssoc' = nAssoc + 1
            /\ attempted' = Append(attempted, "echo")
            /\ \/ /\ pc' = "raised"
                  /\ exc' = "Exception"
                  /\ UNCHANGED <<assoc, prev_assoc, nOpen, lastYield>>
               \/ \E a \in Associations(nAssoc + 1, called_node) :
                    /\ prev_assoc' = assoc
                    /\ assoc' = a
                    /\ exc' = exc
                    /\ IF a.is_established
                       THEN /\ nOpen' = nOpen + 1
                            /\ pc' = "echo"
                            /\ lastYield' = lastYield
                       ELSE /\ nOpen' = nOpen
                            /\ pc' = "done"
                            /\ lastYield' = <<0 - 1>>
    /\ UNCHANGED <<inputs, findFrame, moveFrame, nResp, nYield, sent, scpVars>>

\* lines 55-60: send_c_echo, read the Status, release, return the status;
\* send_c_echo may raise, and the response may carry no Status
Echo_Send ==
    /\ UNCHANGED notNet
    /\ op = "echo" /\ pc = "echo"
    /\ sent' = Append(sent, "echo")
    /\ \/ /\ \E status \in {SUCCESS, STATUS_FAILURE} :
               lastYield' = <<status>>
          /\ assoc' = release(assoc)
          /\ nOpen' = OpenAfter(assoc, assoc', nOpen)
          /\ pc' = "done"
          /\ exc' = exc
       \/ /\ pc' = "raised"
          /\ exc' \in {"Exception", "AttributeError"}
          /\ UNCHANGED <<assoc, nOpen, lastYield>>
    /\ UNCHANGED <<inputs, findFrame, moveFrame, prev_assoc, nAssoc, nResp,
                   nYield, attempted, scpVars>>

\* the variables of the other specifications, at rest
NetIdle ==
    /\ op = "none"
    /\ local_node = [ip |-> None, port |-> None]
    /\ called_node = [ip |-> None, port |-> None]
    /\ start_date = 0
    /\ resources = <<>>
    /\ start_time = <<>>
    /\ end_time = <<>>
    /\ dcm_files = <<>>
    /\ pc = "start"
    /\ exc = ""
    /\ end_date = <<>>
    /\ current_date = 0
    /\ requested_date = <<>>
    /\ char = 0
    /\ windows = <<>>
    /\ dest_node = <<>>
    /\ move_config = <<>>
    /\ idx = 0
    /\ now = 0
    /\ assoc = NoAssoc
    /\ prev_assoc = NoAssoc
    /\ nAssoc = 0
    /\ nOpen = 0
    /\ nResp = 0
    /\ nYield = 0
    /\ lastYield = <<>>
    /\ attempted = <<>>
    /\ sent = <<>>

ScpIdle ==
    /\ scp = 0
    /\ listeners = {}
    /\ nListeners = 0
    /\ calls = <<>>

ParseIdle ==
    /\ nb_threads = 0
    /\ src_files = <<>>
    /\ p_pc = "start"
    /\ p_exc = ""
    /\ nEnqueued = 0
    /\ worker_queue = <<>>
    /\ consumer_queue = <<>>
    /\ stop_working = FALSE
    /\ stop_consuming = FALSE
    /\ w_pc = [w \in 1 .. MaxThreads |-> "none"]
    /\ w_file = [w \in 1 .. MaxThreads |-> 0]
    /\ c_pc = "none"
    /\ c_result = 0
    /\ produced = <<>>
    /\ sunk = <<>>

\* the reception handlers that can run at the same time
Handlers == {1, 2}

NoDataset == [PatientID |-> <<>>, StudyInstanceUID |-> <<>>,
              SeriesInstanceUID |-> <<>>, SOPInstanceUID |-> <<>>]

EmptyDb == [patients |-> <<>>, studies |-> <<>>, series |-> <<>>,
            images |-> <<>>, studies_find |-> <<>>, retrieved |-> {}]

HandlersIdle ==
    /\ disk = <<>>
    /\ nReceptions = 0
    /\ h_pc = [h \in Handlers |-> "idle"]
    /\ h_ds = [h \in Handlers |-> NoDataset]
    /\ h_written = [h \in Handlers |-> 0]
    /\ h_cb = [h \in Handlers |-> 0]
    /\ h_started = [h \in Handlers |-> 0]
    /\ log = <<>>

CallIdle ==
    /\ call = "none"
    /\ arg = <<>>
    /\ ret = <<>>

StoreIdle ==
    /\ sort_by = "PATIENT"
    /\ has_session = FALSE
    /\ callbacks = <<>>
    /\ db = EmptyDb
    /\ HandlersIdle

(***************************************************************************)
(* SpecNet.                                                                *)
(***************************************************************************)
StartDates == {days(1) + t : t \in 0 .. TicksPerDay - 1}
EndDates == {days(d) + t : d \in 0 .. MaxDay, t \in 0 .. TicksPerDay - 1}

InitFind ==
    /\ op = "find"
    /\ called_node \in DicomNode
    /\ local_node = [ip |-> None, port |-> "11112"]
    /\ dest_node = <<>>
    /\ start_date \in StartDates
    /\ end_date \in {<<>>} \cup {<<e>> : e \in EndDates}
    /\ resources = <<>>
    /\ start_time = <<>>
    /\ end_time = <<>>
    /\ dcm_files = <<>>
    /\ now = 0

Times == {<<>>} \cup {<<t>> : t \in 0 .. DayLen - 1}

InitMove ==
    /\ op = "move"
    /\ called_node \in DicomNode
    /\ local_node \in {n \in DicomNode : n.ip = None}
    /\ dest_node \in {<<>>} \cup {<<n>> : n \in {m \in DicomNode : m.ip = None}}
    /\ start_date = 0
    /\ end_date = <<>>
    /\ \E n \in 0 .. MaxResources : resources = [i \in 1 .. n |-> i]
    /\ start_time \in Times
    /\ end_time \in Times
    /\ dcm_files = <<>>
    /\ now \in 0 .. DayLen - 1

InitSend ==
    /\ op = "send_dicom"
    /\ called_node = [ip |-> None, port |-> None]
    /\ local_node = [ip |-> None, port |-> "11112"]
    /\ dest_node \in {<<n>> : n \in DicomNode}
    /\ start_date = 0
    /\ end_date = <<>>
    /\ resources = <<>>
    /\ start_time = <<>>
    /\ end_time = <<>>
    /\ \E n \in 0 .. MaxFiles : dcm_files \in [1 .. n -> BOOLEAN]
    /\ now = 0

InitEcho ==
    /\ op = "echo"
    /\ called_node \in DicomNode
    /\ local_node = [ip |-> None, port |-> "11112"]
    /\ dest_node = <<>>
    /\ start_date = 0
    /\ end_date = <<>>
    /\ resources = <<>>
    /\ start_time = <<>>
    /\ end_time = <<>>
    /\ dcm_files = <<>>
    /\ now = 0

InitNet ==
    /\ (InitFind \/ InitMove \/ InitSend \/ InitEcho)
    /\ pc = "start"
    /\ exc = ""
    /\ current_date = 0
    /\ requested_date = <<>>
    /\ char = 0
    /\ windows = <<>>
    /\ move_config = <<>>
    /\ idx = 0
    /\ assoc = NoAssoc
    /\ prev_assoc = NoAssoc
    /\ nAssoc = 0
    /\ nOpen = 0
    /\ nResp = 0
    /\ nYield = 0
    /\ lastYield = <<>>
    /\ attempted = <<>>
    /\ sent = <<>>
    /\ ScpIdle
    /\ ParseIdle
    /\ StoreIdle
    /\ CallIdle

NextNet ==
    \/ Find_Start
    \/ Find_Window
    \/ Find_Associate
    \/ Find_Response
    \/ Find_Resume
    \/ Find_Close
    \/ Move_Start
    \/ Move_Enter
    \/ Move_Gate
    \/ Move_Associate
    \/ Move_Response
    \/ Move_Resume
    \/ Move_Close
    \/ Send_Start
    \/ Send_File
    \/ Send_Resume
    \/ Send_Close
    \/ Echo_Start
    \/ Echo_Send

SpecNet == InitNet /\ [][NextNet]_vars

\* a call whose thread is scheduled while it waits at the gate of move:
\* sleep(20) returns and can_query is evaluated again (c_move.py 129-130)
SpecNetLive == SpecNet /\ WF_vars(Move_Gate)

(***************************************************************************)
(* Properties of find, move, send_dicom and echo, checked under SpecNet.   *)
(***************************************************************************)
Ended == pc \in {"done", "raised", "closed"}

Claim_C4_WindowsCover ==
    (op = "find" /\ pc = "done") =>
        /\ \A d \in strftime(start_date) .. strftime(end_date[1]) :
               \E i \in 1 .. Len(windows) :
                   windows[i][1] <= d /\ d <= windows[i][2]
        /\ \A i \in 1 .. Len(windows) :
               windows[i][2] - windows[i][1] + 1 <= 16

\* C5: with end_date < start_date, find fails with ValueError as soon as it
\* is iterated: no association was requested and no record was yielded.
Thm_C5_InvalidDates ==
    (op = "find" /\ end_date # <<>> /\ end_date[1] < start_date
        /\ pc # "start") =>
        /\ pc = "raised" /\ exc = "ValueError"
        /\ nAssoc = 0 /\ attempted = <<>> /\ sent = <<>>
        /\ nYield = 0 /\ lastYield = <<>>

\* C5 witness: a find with a reachable called node and end_date < start_date
\* that was iterated.
Wit_C5 ==
    /\ op = "find" /\ has_net_info(called_node)
    /\ end_date # <<>> /\ end_date[1] < start_date
    /\ pc = "raised"

\* C6: with a called node that lacks a host or a port, find, move and echo
\* fail before they attempt an association: ae.associate is never called.
Claim_C6_NoNetInfo ==
    (op \in {"find", "move", "echo"} /\ ~ has_net_info(called_node)) =>
        nAssoc = 0 /\ attempted = <<>>

\* the association for resources[i] was attempted and not established
NotEstablished(a) == a.id # 0 /\ ~ a.was_established

\* C7: move attempts its associations in the order of resources; when the
\* association for an identifier is not established exactly one outcome is
\* yielded for it, (0xC000, identifier); such an association never ends the
\* move with an exception, and a move that is consumed to its end has
\* requested every identifier.
Thm_C7_FailureIsolated ==
    op = "move" =>
        /\ Len(attempted) <= Len(resources)
        /\ \A i \in 1 .. Len(attempted) : attempted[i] = resources[i]
        /\ (pc = "yielded" /\ NotEstablished(assoc)) =>
               nYield = 1 /\ lastYield = <<STATUS_FAILURE, resources[idx]>>
        /\ (pc = "gate" /\ NotEstablished(assoc)) =>
               /\ nYield = 1
               /\ lastYield = <<STATUS_FAILURE, resources[idx - 1]>>
               /\ Len(attempted) = idx - 1
        /\ pc = "raised" => ~ NotEstablished(assoc)
        /\ pc = "done" => attempted = resources

\* C7 witness: a move of two identifiers that ran to its end although the
\* association for the first identifier was not established.
Wit_C7 ==
    /\ op = "move" /\ pc = "done"
    /\ Len(resources) = 2 /\ attempted = resources
    /\ NotEstablished(prev_assoc)

\* C8: the Storage SCP of move is running from before the first association
\* of the move until the move ends: it runs while the move waits at the
\* gate, associates, receives responses or is suspended at a yield, and no
\* listener is left once the move has ended, normally, by an exception or by
\* the caller closing the generator.
Thm_C8_ScpScoped ==
    op = "move" =>
        /\ pc \in {"gate", "associate", "responses", "yielded"} =>
               scp # 0 /\ listeners = {scp}
        /\ (nAssoc > 0 \/ sent # <<>>) => nListeners = 1
        /\ Ended => scp = 0 /\ listeners = {}

\* C8 witness: a move that the caller closed after a request was sent; the
\* server had been started and is shut down.
Wit_C8 ==
    /\ op = "move" /\ pc = "closed"
    /\ sent # <<>> /\ nListeners = 1
    /\ scp = 0 /\ listeners = {}

(***************************************************************************)
(* SpecSCP: run and shutdown calls on one StoreSCPServer (storescp.py).    *)
(***************************************************************************)
Call(name, r) ==
    [call |-> name, exc |-> r[4], scp_before |-> scp, scp_after |-> r[1],
     listeners_before |-> listeners, listeners_after |-> r[2]]

\* server.run(block=False)
SCP_Run ==
    /\ UNCHANGED notSCP
    /\ Len(calls) < MaxCalls
    /\ \E r \in run(scp, listeners, nListeners) :
         /\ scp' = r[1]
         /\ listeners' = r[2]
         /\ nListeners' = r[3]
         /\ calls' = Append(calls, Call("run", r))

\* lines 181-187 and 197-203, block=True: the same check; then the call
\* serves until it is interrupted or start_server raises, and keeps nothing
run_block(s, ls, n) ==
    IF s # 0 THEN {<<s, ls, n, "RuntimeError">>}
    ELSE {<<s, ls, n, "OSError">>, <<s, ls, n + 1, "KeyboardInterrupt">>}

\* server.run(block=True)
SCP_RunBlock ==
    /\ UNCHANGED notSCP
    /\ Len(calls) < MaxCalls
    /\ \E r \in run_block(scp, listeners, nListeners) :
         /\ scp' = r[1]
         /\ listeners' = r[2]
         /\ nListeners' = r[3]
         /\ calls' = Append(calls, Call("run_block", r))

\* server.shutdown()
SCP_Shutdown ==
    /\ UNCHANGED notSCP
    /\ Len(calls) < MaxCalls
    /\ scp' = shutdown(scp, listeners)[1]
    /\ listeners' = shutdown(scp, listeners)[2]
    /\ nListeners' = nListeners
    /\ calls' = Append(calls, Call("shutdown",
                   <<scp', listeners', nListeners, "">>))

InitSCP == NetIdle /\ ScpIdle /\ ParseIdle /\ StoreIdle /\ CallIdle

NextSCP ==
    \/ SCP_Run
    \/ SCP_RunBlock
    \/ SCP_Shutdown

SpecSCP == InitSCP /\ [][NextSCP]_vars

\* the last call that returned without an exception ("none" if there is none)
LastSuccessful ==
    LET ok == {i \in 1 .. Len(calls) : calls[i].exc = ""}
    IN  IF ok = {} THEN "none"
        ELSE calls[CHOOSE i \in ok : \A j \in ok : j <= i].call

\* C9: a run made while a listener is held raises RuntimeError and leaves the
\* listener as it is; a shutdown of a stopped server changes nothing and
\* raises nothing; the server holds at most one listener, which is the only
\* one running, and holds one exactly when the last call that succeeded was
\* run.
Thm_C9_RunShutdown ==
    /\ \A i \in 1 .. Len(calls) :
         LET c == calls[i] IN
         /\ (c.call \in {"run", "run_block"} /\ c.scp_before # 0) =>
                /\ c.exc = "RuntimeError"
                /\ c.scp_after = c.scp_before
                /\ c.listeners_after = c.listeners_before
         /\ (c.call = "shutdown" /\ c.scp_before = 0) =>
                /\ c.exc = ""
                /\ c.scp_after = 0
                /\ c.listeners_after = c.listeners_before
    /\ Cardinality(listeners) <= 1
    /\ listeners = IF scp = 0 THEN {} ELSE {scp}
    /\ (scp # 0) <=> (LastSuccessful = "run")

\* C9 witness: a run refused while a listener was running, then two
\* shutdowns, the second on the stopped server.
Wit_C9 ==
    /\ Len(calls) = 4
    /\ calls[1].call = "run" /\ calls[1].exc = ""
    /\ calls[2].call = "run" /\ calls[2].exc = "RuntimeError"
    /\ calls[3].call = "shutdown" /\ calls[3].scp_before # 0
    /\ calls[4].call = "shutdown" /\ calls[4].scp_before = 0

(***************************************************************************)
(* parse_dir and its threads (io/base_parser.py).                          *)
(***************************************************************************)
Workers == 1 .. MaxThreads

\* lines 118-151: the checks of the arguments; then the events and queues are
\* made and the consumer and the nb_threads workers are started
P_Start ==
    /\ UNCHANGED notParse
    /\ p_pc = "start"
    /\ IF nb_threads < 1
       THEN /\ p_pc' = "raised"
            /\ p_exc' = "ValueError"
            /\ UNCHANGED <<w_pc, c_pc>>
       ELSE /\ p_pc' = "enqueue"
            /\ p_exc' = p_exc
            /\ c_pc' = "get"
            /\ w_pc' = [w \in Workers |->
                           IF w <= nb_threads THEN "get" ELSE "none"]
    /\ UNCHANGED <<nb_threads, src_files, nEnqueued, worker_queue,
                   consumer_queue, stop_working, stop_consuming, w_file,
                   c_result, produced, sunk>>

\* lines 69-78 and 153: _enqueue_files puts the next path on the worker
\* queue, returns after the last, or raises
P_Enqueue ==
    /\ UNCHANGED notParse
    /\ p_pc = "enqueue"
    /\ \/ /\ nEnqueued < Len(src_files)
          /\ nEnqueued' = nEnqueued + 1
          /\ worker_queue' = Append(worker_queue, nEnqueued + 1)
          /\ UNCHANGED <<p_pc, p_exc>>
       \/ /\ nEnqueued = Len(src_files)
          /\ p_pc' = "finally"
          /\ UNCHANGED <<nEnqueued, worker_queue, p_exc>>
       \/ /\ nEnqueued < Len(src_files)
          /\ p_pc' = "finally"
          /\ p_exc' = "OSError"
          /\ UNCHANGED <<nEnqueued, worker_queue>>
    /\ UNCHANGED <<nb_threads, src_files, consumer_queue, stop_working,
                   stop_consuming, w_pc, w_file, c_pc, c_result, produced,
                   sunk>>

\* line 155: stop_working.set()
P_StopWorking ==
    /\ UNCHANGED notParse
    /\ p_pc = "finally"
    /\ stop_working' = TRUE
    /\ p_pc' = "join_workers"
    /\ UNCHANGED <<nb_threads, src_files, p_exc, nEnqueued, worker_queue,
                   consumer_queue, stop_consuming, w_pc, w_file, c_pc,
                   c_result, produced, sunk>>

\* lines 156-159: every worker is joined, then stop_consuming.set()
P_JoinWorkers ==
    /\ UNCHANGED notParse
    /\ p_pc = "join_workers"
    /\ \A w \in Workers : w_pc[w] \in {"none", "exit"}
    /\ stop_consuming' = TRUE
    /\ p_pc' = "join_consumer"
    /\ UNCHANGED <<nb_threads, src_files, p_exc, nEnqueued, worker_queue,
                   consumer_queue, stop_working, w_pc, w_file, c_pc, c_result,
                   produced, sunk>>

\* line 160: the consumer is joined; parse_dir returns, or raises what
\* _enqueue_files raised
P_JoinConsumer ==
    /\ UNCHANGED notParse
    /\ p_pc = "join_consumer"
    /\ c_pc = "exit"
    /\ p_pc' = IF p_exc = "" THEN "returned" ELSE "raised"
    /\ UNCHANGED <<nb_threads, src_files, p_exc, nEnqueued, worker_queue,
                   consumer_queue, stop_working, stop_consuming, w_pc, w_file,
                   c_pc, c_result, produced, sunk>>

\* line 29: worker_queue.get(True, timeout=1) returns the head of the queue,
\* or raises queue.Empty when the queue is still empty after the timeout
W_Get(w) ==
    /\ UNCHANGED notParse
    /\ w_pc[w] = "get"
    /\ IF worker_queue # <<>>
       THEN /\ w_file' = [w_file EXCEPT ![w] = Head(worker_queue)]
            /\ worker_queue' = Tail(worker_queue)
            /\ w_pc' = [w_pc EXCEPT ![w] = "parse"]
       ELSE /\ w_pc' = [w_pc EXCEPT ![w] = "empty"]
            /\ UNCHANGED <<w_file, worker_queue>>
    /\ UNCHANGED <<nb_threads, src_files, p_pc, p_exc, nEnqueued,
                   consumer_queue, stop_working, stop_consuming, c_pc,
                   c_result, produced, sunk>>

\* a worker that puts its result at the head of the consumer queue
thread_worker_put_first(queue, calls_made, result) ==
    <<<<result>> \o queue, calls_made>>

\* a worker that passes its result to the callback itself
thread_worker_put_callback(queue, calls_made, result) ==
    <<queue, Append(calls_made, result)>>

\* line 36: consumer_queue.put(result); the worker calls nothing else.  The
\* result: <<the consumer queue, the calls of the callback made so far>>
thread_worker_put(queue, calls_made, result) ==
    <<Append(queue, result), calls_made>>

\* lines 30-36 and 40-43: the file is parsed and the result put on the
\* consumer queue; an exception of the parse is dropped.  file_path is not
\* read again before the next get assigns it.
W_Parse(w) ==
    /\ UNCHANGED notParse
    /\ w_pc[w] = "parse"
    /\ IF src_files[w_file[w]]
       THEN /\ consumer_queue' =
                   thread_worker_put(consumer_queue, sunk, w_file[w])[1]
            /\ sunk' = thread_worker_put(consumer_queue, sunk, w_file[w])[2]
            /\ produced' = Append(produced, w_file[w])
       ELSE UNCHANGED <<consumer_queue, produced, sunk>>
    /\ w_pc' = [w_pc EXCEPT ![w] = "get"]
    /\ w_file' = [w_file EXCEPT ![w] = 0]
    /\ UNCHANGED <<nb_threads, src_files, p_pc, p_exc, nEnqueued, worker_queue,
                   stop_working, stop_consuming, c_pc, c_result>>

\* a worker that goes back to the queue whatever the event says
thread_worker_empty_retry(is_set) == "get"

\* lines 37-39: except queue.Empty: if stop_working.is_set(): break
thread_worker_empty(is_set) == IF is_set THEN "exit" ELSE "get"

\* lines 37-39, for worker w
W_Empty(w) ==
    /\ UNCHANGED notParse
    /\ w_pc[w] = "empty"
    /\ w_pc' = [w_pc EXCEPT ![w] = thread_worker_empty(stop_working)]
    /\ UNCHANGED <<nb_threads, src_files, p_pc, p_exc, nEnqueued, worker_queue,
                   consumer_queue, stop_working, stop_consuming, w_file, c_pc,
                   c_result, produced, sunk>>

\* line 60: consumer_queue.get(True, timeout=1)
C_Get ==
    /\ UNCHANGED notParse
    /\ c_pc = "get"
    /\ IF consumer_queue # <<>>
       THEN /\ c_result' = Head(consumer_queue)
            /\ consumer_queue' = Tail(consumer_queue)
            /\ c_pc' = "callback"
       ELSE /\ c_pc' = "empty"
            /\ UNCHANGED <<c_result, consumer_queue>>
    /\ UNCHANGED <<nb_threads, src_files, p_pc, p_exc, nEnqueued, worker_queue,
                   stop_working, stop_consuming, w_pc, w_file, produced, sunk>>

\* lines 61 and 65-66: the callback is called with the result; what it raises
\* is dropped.  result is not read again before the next get assigns it.
C_Callback ==
    /\ UNCHANGED notParse
    /\ c_pc = "callback"
    /\ sunk' = Append(sunk, c_result)
    /\ c_pc' = "get"
    /\ c_result' = 0
    /\ UNCHANGED <<nb_threads, src_files, p_pc, p_exc, nEnqueued, worker_queue,
                   consumer_queue, stop_working, stop_consuming, w_pc, w_file,
                   produced>>

\* lines 62-64: except queue.Empty: if stop_consuming.is_set(): break
C_Empty ==
    /\ UNCHANGED notParse
    /\ c_pc = "empty"
    /\ c_pc' = IF stop_consuming THEN "exit" ELSE "get"
    /\ UNCHANGED <<nb_threads, src_files, p_pc, p_exc, nEnqueued, worker_queue,
                   consumer_queue, stop_working, stop_consuming, w_pc, w_file,
                   c_result, produced, sunk>>

InitParse ==
    /\ NetIdle
    /\ ScpIdle
    /\ StoreIdle
    /\ CallIdle
    /\ nb_threads \in 0 .. MaxThreads
    /\ \E n \in 0 .. MaxParseFiles : src_files \in [1 .. n -> BOOLEAN]
    /\ p_pc = "start"
    /\ p_exc = ""
    /\ nEnqueued = 0
    /\ worker_queue = <<>>
    /\ consumer_queue = <<>>
    /\ stop_working = FALSE
    /\ stop_consuming = FALSE
    /\ w_pc = [w \in Workers |-> "none"]
    /\ w_file = [w \in Workers |-> 0]
    /\ c_pc = "none"
    /\ c_result = 0
    /\ produced = <<>>
    /\ sunk = <<>>

NextParse ==
    \/ P_Start
    \/ P_Enqueue
    \/ P_StopWorking
    \/ P_JoinWorkers
    \/ P_JoinConsumer
    \/ \E w \in Workers : W_Get(w)
    \/ \E w \in Workers : W_Parse(w)
    \/ \E w \in Workers : W_Empty(w)
    \/ C_Get
    \/ C_Callback
    \/ C_Empty

SpecParse == InitParse /\ [][NextParse]_vars

\* the steps of the thread that called parse_dir, of worker w and of the
\* consumer
MainStep ==
    P_Start \/ P_Enqueue \/ P_StopWorking \/ P_JoinWorkers \/ P_JoinConsumer
WorkerStep(w) == W_Get(w) \/ W_Parse(w) \/ W_Empty(w)
ConsumerStep == C_Get \/ C_Callback \/ C_Empty

\* parse_dir with threads that are scheduled: a thread that can take a step
\* takes it in the end (a get returns or times out after one second, and a
\* parse or a callback that was started returns)
SpecParseLive ==
    /\ SpecParse
    /\ WF_vars(MainStep)
    /\ \A w \in Workers : WF_vars(WorkerStep(w))
    /\ WF_vars(ConsumerStep)

\* how many times x occurs in the sequence s
Count(s, x) == Cardinality({i \in 1 .. Len(s) : s[i] = x})

\* parse_dir has returned (or raised what the enqueueing raised)
ParseEnded == p_pc = "returned" \/ (p_pc = "raised" /\ p_exc # "ValueError")

\* C2: when parse_dir returns, the callback has been called exactly once for
\* each enqueued file whose parse succeeds and never for a file whose parse
\* raises.
Claim_C2_SinkExactlyOnce ==
    ParseEnded =>
        \A f \in 1 .. nEnqueued :
            Count(sunk, f) = IF src_files[f] THEN 1 ELSE 0

\* C10: stop_working is set only after the enqueueing has ended; a worker
\* exits only after stop_working is set; stop_consuming is set only after
\* every worker has exited; the consumer exits only after stop_consuming is
\* set; and when parse_dir returns both queues are empty and every result a
\* worker produced has been passed to the callback.
Claim_C10_TwoPhaseShutdown ==
    /\ stop_working => p_pc \notin {"start", "enqueue"}
    /\ \A w \in Workers : w_pc[w] = "exit" => stop_working
    /\ stop_consuming => \A w \in Workers : w_pc[w] \in {"none", "exit"}
    /\ c_pc = "exit" => stop_consuming
    /\ ParseEnded =>
           /\ worker_queue = <<>>
           /\ consumer_queue = <<>>
           /\ \A f \in 1 .. Len(src_files) :
                  Count(produced, f) = Count(sunk, f)

(***************************************************************************)
(* The records of db/crud.py.  A table is the sequence of the unique keys  *)
(* of its rows (db/models.py: patient_id, study_uid, series_uid, image_uid *)
(* are unique columns); flushing a row whose key is in the table raises    *)
(* IntegrityError, and session.rollback() drops every row that was flushed *)
(* and not committed.                                                      *)
(***************************************************************************)
InTable(table, key) == \E i \in 1 .. Len(table) : table[i] = key

NoPending == [patients |-> <<>>, studies |-> <<>>, series |-> <<>>]

\* add_image that lets the IntegrityError of a duplicate image out
add_image_raising(d, ds) ==
    IF InTable(d.images, ds.SOPInstanceUID)
    THEN [db |-> d, image |-> FALSE, raised |-> TRUE]
    ELSE [db |-> [d EXCEPT !.images = Append(@, ds.SOPInstanceUID)],
          image |-> TRUE, raised |-> FALSE]

\* crud.py lines 47-125.  The result: the database, whether an Image is
\* returned (None otherwise), and whether a SQLAlchemyError is raised.
add_image(d, ds) ==
    LET \* lines 78-88: the patient
        p1 == IF InTable(d.patients, ds.PatientID) THEN NoPending
              ELSE [NoPending EXCEPT !.patients = <<ds.PatientID>>]
        \* lines 90-101: the study
        p2 == IF InTable(d.studies, ds.StudyInstanceUID) THEN NoPending
              ELSE [p1 EXCEPT !.studies = <<ds.StudyInstanceUID>>]
        \* lines 103-114: the series
        p3 == IF InTable(d.series, ds.SeriesInstanceUID) THEN NoPending
              ELSE [p2 EXCEPT !.series = <<ds.SeriesInstanceUID>>]
    IN  \* lines 116-125: the image, and the commit
        IF InTable(d.images, ds.SOPInstanceUID)
        THEN [db |-> d, image |-> FALSE, raised |-> FALSE]
        ELSE [db |-> [d EXCEPT !.patients = @ \o p3.patients,
                               !.studies = @ \o p3.studies,
                               !.series = @ \o p3.series,
                               !.images = Append(@, ds.SOPInstanceUID)],
              image |-> TRUE, raised |-> FALSE]

\* add_found_study that lets the IntegrityError of a duplicate study out
add_found_study_raising(d, ds) ==
    IF InTable(d.studies_find, ds.StudyInstanceUID)
    THEN [db |-> d, study_find |-> FALSE, raised |-> TRUE]
    ELSE [db |-> [d EXCEPT !.studies_find = Append(@, ds.StudyInstanceUID)],
          study_find |-> TRUE, raised |-> FALSE]

\* crud.py lines 24-44.  The result: the database, whether a StudyFind is
\* returned (None otherwise), and whether an exception is raised.  The
\* commit of a study_uid that is in the table raises IntegrityError, which is
\* caught: rollback, return None.
add_found_study(d, ds) ==
    IF InTable(d.studies_find, ds.StudyInstanceUID)
    THEN [db |-> d, study_find |-> FALSE, raised |-> FALSE]
    ELSE [db |-> [d EXCEPT !.studies_find = Append(@, ds.StudyInstanceUID)],
          study_find |-> TRUE, raised |-> FALSE]

\* crud.py lines 128-157
update_retrieved_study(d, study_uid) ==
    IF InTable(d.studies_find, study_uid)
    THEN [d EXCEPT !.retrieved = @ \cup {study_uid}]
    ELSE d

(***************************************************************************)
(* default_store_handle (storescp.py).                                     *)
(***************************************************************************)
\* A string is the sequence of its characters.
sep == "/"
data_dir == <<"d">>

\* the datasets that are received
Datasets ==
    {[PatientID |-> <<"1">>, StudyInstanceUID |-> <<"1">>,
      SeriesInstanceUID |-> <<"1">>, SOPInstanceUID |-> <<"1">>],
     [PatientID |-> <<"2">>, StudyInstanceUID |-> <<"1">>,
      SeriesInstanceUID |-> <<"1">>, SOPInstanceUID |-> <<"1">>],
     [PatientID |-> <<"1">>, StudyInstanceUID |-> <<"2">>,
      SeriesInstanceUID |-> <<"2">>, SOPInstanceUID |-> <<"2">>]}

\* os.path.join (posixpath) for one more component b: a component that
\* starts with the separator replaces what was joined so far, and no
\* separator is added to an empty path or after a separator
join_component(path, b) ==
    IF b # <<>> /\ b[1] = sep THEN b
    ELSE IF path = <<>> \/ path[Len(path)] = sep THEN path \o b
    ELSE path \o <<sep>> \o b

\* os.path.join(a, *p)
RECURSIVE os_path_join(_, _)
os_path_join(a, p) ==
    IF p = <<>> THEN a
    ELSE os_path_join(join_component(a, Head(p)), Tail(p))

\* lines 72-86: the destination path
dest(dir, sort, ds) ==
    (IF sort = "PATIENT"
     THEN os_path_join(dir, <<ds.PatientID, ds.StudyInstanceUID,
                              ds.SeriesInstanceUID, ds.SOPInstanceUID>>)
     ELSE IF sort = "STUDY"
     THEN os_path_join(dir, <<ds.StudyInstanceUID, ds.SeriesInstanceUID,
                              ds.SOPInstanceUID>>)
     ELSE os_path_join(dir, <<ds.SOPInstanceUID>>))
    \o <<".", "d", "c", "m">>

\* the chunks of the file that save_as writes for ds
FileOf(ds) == [k \in 1 .. NChunks |-> <<ds, k>>]

\* a file handle writes chunk at position pos of the file
write_at(content, pos, chunk) ==
    [i \in 1 .. (IF pos > Len(content) THEN pos ELSE Len(content)) |->
        IF i = pos THEN chunk
        ELSE IF i <= Len(content) THEN content[i] ELSE <<>>]

\* the file at path is created or replaced by content
put_file(files, path, content) ==
    [q \in DOMAIN files \cup {path} |-> IF q = path THEN content ELSE files[q]]

\* the failures met so far (a decoding, write, database or callback failure)
Faults == Cardinality({i \in 1 .. Len(log) : log[i].fault # "none"})

\* a failure can still be met
MayFail == Faults < MaxFaults

\* the reception of handler h ends and its locals go: status is <<code>> for
\* the status code that is returned, <<>> when an exception leaves the
\* handler; called is the number of callbacks that were called
Return(h, status, fault, called) ==
    /\ log' = Append(log, [ds |-> h_ds[h], status |-> status, fault |-> fault,
                           started |-> h_started[h], called |-> called])
    /\ h_pc' = [h_pc EXCEPT ![h] = "idle"]
    /\ h_ds' = [h_ds EXCEPT ![h] = NoDataset]
    /\ h_written' = [h_written EXCEPT ![h] = 0]
    /\ h_cb' = [h_cb EXCEPT ![h] = 0]
    /\ h_started' = [h_started EXCEPT ![h] = 0]

\* handler h goes on to stage ("record", line 97, or "callbacks", line 105):
\* line 97 passes when db_session is None, the loop of line 106 ends at once
\* when there is no callback, and line 109 then returns 0x0000
Proceed(h, stage) ==
    IF stage = "record" /\ has_session
    THEN /\ h_pc' = [h_pc EXCEPT ![h] = "record"]
         /\ h_written' = [h_written EXCEPT ![h] = 0]
         /\ UNCHANGED <<log, h_ds, h_cb, h_started>>
    ELSE IF callbacks # <<>>
    THEN /\ h_pc' = [h_pc EXCEPT ![h] = "callbacks"]
         /\ h_written' = [h_written EXCEPT ![h] = 0]
         /\ UNCHANGED <<log, h_ds, h_cb, h_started>>
    ELSE Return(h, <<SUCCESS>>, "none", 0)

\* lines 65-70: a C-STORE event arrives, is given to the first free handler
\* thread, and its dataset is decoded
H_Receive(h) ==
    /\ UNCHANGED notStore
    /\ h_pc[h] = "idle"
    /\ \A g \in Handlers : g < h => h_pc[g] # "idle"
    /\ nReceptions < MaxReceptions
    /\ nReceptions' = nReceptions + 1
    /\ \/ \E ds \in Datasets :
            /\ h_ds' = [h_ds EXCEPT ![h] = ds]
            /\ h_pc' = [h_pc EXCEPT ![h] = "open"]
            /\ h_started' = [h_started EXCEPT ![h] = Len(log)]
            /\ h_cb' = [h_cb EXCEPT ![h] = 1]
            /\ log' = log
       \/ /\ MayFail
          /\ log' = Append(log, [ds |-> NoDataset,
                                 status |-> <<UNABLE_TO_DECODE>>,
                                 fault |-> "decode", started |-> Len(log),
                                 called |-> 0])
          /\ UNCHANGED <<h_pc, h_ds, h_started, h_cb>>
    /\ UNCHANGED <<sort_by, has_session, callbacks, disk, db, h_written>>

\* lines 88-91: makedirs, and save_as opens the destination for writing,
\* which empties it; either may raise OSError (line 93)
H_Open(h) ==
    /\ UNCHANGED notStore
    /\ h_pc[h] = "open"
    /\ \/ /\ disk' = put_file(disk, dest(data_dir, sort_by, h_ds[h]), <<>>)
          /\ h_pc' = [h_pc EXCEPT ![h] = "write"]
          /\ UNCHANGED <<log, h_ds, h_written, h_cb, h_started>>
       \/ /\ MayFail
          /\ Return(h, <<UNABLE_TO_PROCESS>>, "OSError", 0)
          /\ disk' = disk
    /\ UNCHANGED <<sort_by, has_session, callbacks, db, nReceptions>>

\* line 91: save_as writes the next chunk at its position in the file and
\* closes the file after the last; a write may raise OSError (line 93)
H_Write(h) ==
    /\ UNCHANGED notStore
    /\ h_pc[h] = "write"
    /\ LET path == dest(data_dir, sort_by, h_ds[h]) IN
       \/ /\ disk' = put_file(disk, path,
                        write_at(disk[path], h_written[h] + 1,
                                 <<h_ds[h], h_written[h] + 1>>))
          /\ IF h_written[h] + 1 = NChunks
             THEN Proceed(h, "record")
             ELSE /\ h_written' = [h_written EXCEPT ![h] = @ + 1]
                  /\ UNCHANGED <<log, h_pc, h_ds, h_cb, h_started>>
       \/ /\ MayFail
          /\ Return(h, <<UNABLE_TO_PROCESS>>, "OSError", 0)
          /\ disk' = disk
    /\ UNCHANGED <<sort_by, has_session, callbacks, db, nReceptions>>

\* a handling of SQLAlchemyError that takes the file away again
except_SQLAlchemyError_unlink(files, path) ==
    [q \in DOMAIN files \ {path} |-> files[q]]

\* lines 101-103: except exc.SQLAlchemyError: a warning is logged and
\* UNABLE_TO_RECORD is returned; the files are left as they are
except_SQLAlchemyError(files, path) == files

\* lines 97-103: with a session, add_image and update_retrieved_study; a
\* SQLAlchemyError (add_image's, or the database failing) is caught
H_Record(h) ==
    /\ UNCHANGED notStore
    /\ h_pc[h] = "record"
    /\ LET path == dest(data_dir, sort_by, h_ds[h]) IN
       \/ LET r == add_image(db, h_ds[h]) IN
          IF r.raised
          THEN /\ Return(h, <<UNABLE_TO_RECORD>>, "none", 0)
               /\ db' = r.db
               /\ disk' = except_SQLAlchemyError(disk, path)
          ELSE /\ db' = update_retrieved_study(r.db, h_ds[h].StudyInstanceUID)
               /\ Proceed(h, "callbacks")
               /\ disk' = disk
       \/ /\ MayFail
          /\ Return(h, <<UNABLE_TO_RECORD>>, "SQLAlchemyError", 0)
          /\ db' = db
          /\ disk' = except_SQLAlchemyError(disk, path)
    /\ UNCHANGED <<sort_by, has_session, callbacks, nReceptions>>

\* lines 105-109: the next callback is called with the dataset (what it
\* raises leaves the handler); after the last, 0x0000 is returned
H_Callback(h) ==
    /\ UNCHANGED notStore
    /\ h_pc[h] = "callbacks"
    /\ \/ IF h_cb[h] = Len(callbacks)
          THEN Return(h, <<SUCCESS>>, "none", h_cb[h])
          ELSE /\ h_cb' = [h_cb EXCEPT ![h] = @ + 1]
               /\ UNCHANGED <<h_pc, log, h_ds, h_written, h_started>>
       \/ /\ MayFail
          /\ Return(h, <<>>, "callback", h_cb[h])
    /\ UNCHANGED <<sort_by, has_session, callbacks, disk, db, nReceptions>>

InitStore ==
    /\ NetIdle
    /\ ScpIdle
    /\ ParseIdle
    /\ CallIdle
    /\ sort_by \in {"PATIENT", "STUDY", "IMAGE"}
    /\ has_session \in BOOLEAN
    /\ \E n \in 0 .. MaxCallbacks : callbacks = [i \in 1 .. n |-> i]
    /\ db = [EmptyDb EXCEPT !.studies_find = IF has_session THEN <<<<"1">>>>
                                                                ELSE <<>>]
    /\ HandlersIdle

NextStore ==
    \/ \E h \in Handlers : H_Receive(h)
    \/ \E h \in Handlers : H_Open(h)
    \/ \E h \in Handlers : H_Write(h)
    \/ \E h \in Handlers : H_Record(h)
    \/ \E h \in Handlers : H_Callback(h)

SpecStore == InitStore /\ [][NextStore]_vars

\* receptions i and j of the log ran one after the other, i first
InSequence(i, j) == i < j /\ log[j].started >= i

\* C3: when the handler has run twice in sequence for the same dataset, and
\* no write, database or callback failure was met, both runs returned
\* 0x0000, the only file on disk is the complete file of the dataset at its
\* destination path, and with a session there is exactly one image record of
\* its SOPInstanceUID.
Thm_C3_TwiceSameDataset ==
    (/\ Len(log) = 2
     /\ \A h \in Handlers : h_pc[h] = "idle"
     /\ InSequence(1, 2)
     /\ log[1].ds = log[2].ds
     /\ log[1].ds # NoDataset
     /\ log[1].fault = "none" /\ log[2].fault = "none") =>
        LET ds == log[1].ds
            path == dest(data_dir, sort_by, ds)
        IN  /\ log[1].status = <<SUCCESS>>
            /\ log[2].status = <<SUCCESS>>
            /\ DOMAIN disk = {path}
            /\ disk[path] = FileOf(ds)
            /\ has_session =>
                   Count(db.images, ds.SOPInstanceUID) = 1

\* C3 witness: two receptions of the same dataset in sequence, with a
\* session, both ended with 0x0000.
Wit_C3 ==
    /\ Len(log) = 2
    /\ InSequence(1, 2)
    /\ log[1].ds = log[2].ds /\ log[1].ds # NoDataset
    /\ log[1].status = <<SUCCESS>> /\ log[2].status = <<SUCCESS>>
    /\ has_session
    /\ Len(db.images) = 1

\* the destination path of the dataset of reception i of the log
PathOf(i) == dest(data_dir, sort_by, log[i].ds)

\* every reception that was delivered has ended
Quiescent == \A h \in Handlers : h_pc[h] = "idle"

\* C11: when two receptions whose datasets have the same destination path
\* ran at the same time and both ended without a failure, and they are the
\* only receptions, the file at that path is the complete file of one of
\* the two datasets: their writes were not interleaved.
Claim_C11_NoInterleave ==
    (/\ Len(log) = 2 /\ nReceptions = 2 /\ Quiescent
     /\ ~ InSequence(1, 2)
     /\ log[1].ds # NoDataset /\ log[2].ds # NoDataset
     /\ PathOf(1) = PathOf(2)
     /\ log[1].fault = "none" /\ log[2].fault = "none") =>
        disk[PathOf(1)] \in {FileOf(log[1].ds), FileOf(log[2].ds)}

\* C12: a reception whose write failed with OSError returned
\* UNABLE_TO_PROCESS, called no callback and recorded nothing; when it is
\* the only reception, no file or the complete file of its dataset is at its
\* destination path, never a partial file.
Claim_C12_NoPartialFile ==
    (/\ Len(log) = 1 /\ nReceptions = 1
     /\ log[1].fault = "OSError") =>
        /\ log[1].status = <<UNABLE_TO_PROCESS>>
        /\ log[1].called = 0
        /\ db.images = <<>>
        /\ \/ PathOf(1) \notin DOMAIN disk
           \/ disk[PathOf(1)] = FileOf(log[1].ds)

\* C13: a reception whose persistence step failed returned UNABLE_TO_RECORD
\* and called no callback; a file is at its destination path, and it is the
\* complete file of its dataset when no other reception wrote to that path.
Thm_C13_RecordFailureKeepsFile ==
    \A i \in 1 .. Len(log) :
        log[i].fault = "SQLAlchemyError" =>
            /\ log[i].status = <<UNABLE_TO_RECORD>>
            /\ log[i].called = 0
            /\ PathOf(i) \in DOMAIN disk
            /\ ((\A j \in 1 .. Len(log) : j # i => PathOf(j) # PathOf(i))
                /\ (\A h \in Handlers :
                       dest(data_dir, sort_by, h_ds[h]) # PathOf(i))) =>
                   disk[PathOf(i)] = FileOf(log[i].ds)

\* C13 witness: a reception ended by a failure of the database, its file
\* complete on disk.
Wit_C13 ==
    /\ Len(log) = 1
    /\ log[1].fault = "SQLAlchemyError"
    /\ log[1].status = <<UNABLE_TO_RECORD>>
    /\ PathOf(1) \in DOMAIN disk
    /\ disk[PathOf(1)] = FileOf(log[1].ds)

\* C14: every reception that ended returned one of 0x0000, 0xC215, 0xC216
\* and 0xC217, and no exception left the handler.
Claim_C14_StatusReturned ==
    \A i \in 1 .. Len(log) :
        log[i].status \in {<<SUCCESS>>, <<UNABLE_TO_DECODE>>,
                           <<UNABLE_TO_PROCESS>>, <<UNABLE_TO_RECORD>>}

\* C15: for each reception that ended, every callback was called when the
\* file was written, and none when the decode step or the write failed.
Claim_C15_CallbacksAfterWrite ==
    \A i \in 1 .. Len(log) :
        IF log[i].fault \in {"decode", "OSError"}
        THEN log[i].called = 0
        ELSE log[i].called = Len(callbacks)

(***************************************************************************)
(* Further properties of find, move and send_dicom, checked under SpecNet. *)
(***************************************************************************)
\* C16: find calls ae.associate once for each (window, letter) pair, the
\* windows in ascending order of date and the letters of a window in order;
\* a C-FIND is sent at most once for a pair, and only for a pair that was
\* attempted; a pair whose association is not established yields nothing and
\* the scan goes on; a find that ran to its end has attempted every pair.
Thm_C16_OnePerPair ==
    op = "find" =>
        /\ nAssoc = Len(attempted)
        /\ \A i \in 1 .. Len(attempted) :
               attempted[i] = <<windows[((i - 1) \div NLetters) + 1],
                                ((i - 1) % NLetters) + 1>>
        /\ \A k \in 1 .. Len(windows) - 1 : windows[k][1] < windows[k + 1][1]
        /\ \A i \in 1 .. Len(sent) :
               /\ \E j \in 1 .. Len(attempted) : attempted[j] = sent[i]
               /\ \A j \in 1 .. Len(sent) : j # i => sent[j] # sent[i]
        /\ (NotEstablished(assoc) /\ assoc.id = nAssoc) =>
               nYield = 0 /\ pc \in {"letter", "window", "done"}
        /\ pc = "done" => Len(attempted) = Len(windows) * NLetters

\* C16 witness: a find over two windows that ran to its end although the
\* association of some pair was not established.
Wit_C16 ==
    /\ op = "find" /\ pc = "done"
    /\ Len(windows) = 2
    /\ Len(attempted) = 2 * NLetters
    /\ Len(sent) < Len(attempted)

\* C17: move yields one outcome for each identifier: never more than one
\* value is yielded for the identifier that is being requested.
Claim_C17_OneOutcomePerId ==
    op = "move" => nYield <= 1

\* C18: in move an unset dest_node becomes the local node, and when the
\* destination node has no port the move fails with ValueError as soon as
\* it is iterated: no server was started and no association was requested.
Thm_C18_DestPort ==
    /\ [](op = "move" /\ pc # "start" =>
            /\ dest_node # <<>>
            /\ dest_node[1].port = None =>
                   /\ pc = "raised" /\ exc = "ValueError"
                   /\ nListeners = 0 /\ scp = 0 /\ listeners = {}
                   /\ nAssoc = 0 /\ attempted = <<>>)
    /\ [][(op = "move" /\ pc = "start") =>
             dest_node' = IF dest_node = <<>> THEN <<local_node>>
                          ELSE dest_node]_vars

\* C18 witness: a move without dest_node whose local node has no port,
\* iterated once.
Wit_C18 ==
    /\ op = "move" /\ pc = "raised" /\ exc = "ValueError"
    /\ dest_node = <<local_node>>
    /\ local_node.port = None

\* C19: can_query is true at every time of day when start_time and end_time
\* are unset or equal; with start_time < end_time it is true exactly when
\* start_time < now < end_time; with start_time > end_time exactly when
\* now > start_time or now < end_time; and move requests an identifier only
\* at a time when can_query is true.
Thm_C19_CanQuery ==
    (op = "move" /\ pc \in {"gate", "associate", "responses", "yielded",
                            "done", "closed"}) =>
        /\ \A t \in 0 .. DayLen - 1 :
               can_query(move_config, t) <=>
                   IF start_time = <<>> \/ start_time = end_time THEN TRUE
                   ELSE IF start_time[1] < end_time[1]
                        THEN start_time[1] < t /\ t < end_time[1]
                        ELSE t > start_time[1] \/ t < end_time[1]
        /\ pc = "associate" => can_query(move_config, now)

\* C19 witness: a move with a window that wraps past midnight, about to
\* request an identifier at a time later than start_time.
Wit_C19 ==
    /\ op = "move" /\ pc = "associate"
    /\ start_time # <<>> /\ end_time # <<>>
    /\ start_time[1] > end_time[1]
    /\ now > start_time[1]

Strings(n) == UNION {[1 .. k -> {sep, "1"}] : k \in 0 .. n}

\* the identifiers a received dataset can carry
Identifiers == Strings(MaxIdLen)

\* storescp.py lines 72-86, for any dataset and sort key
InitDest ==
    /\ call = "dest"
    /\ arg \in [sort_by : {"PATIENT", "STUDY", "IMAGE"},
                ds : [PatientID : Identifiers, StudyInstanceUID : Identifiers,
                      SeriesInstanceUID : Identifiers,
                      SOPInstanceUID : Identifiers]]

Call_dest ==
    /\ UNCHANGED notCall
    /\ call = "dest" /\ ret = <<>>
    /\ ret' = <<dest(data_dir, arg.sort_by, arg.ds)>>
    /\ UNCHANGED <<call, arg>>

\* c_find.py line 24
SEARCH_FIELDS == <<"Modality", "PatientName", "StudyDate">>

\* the field names a caller asks for: a search field and another one
FieldLists ==
    {<<>>, <<"Modality">>, <<"PatientBirthDate">>,
     <<"Modality", "PatientBirthDate">>, <<"PatientBirthDate", "Modality">>}

\* the identifiers that find yields (lines 140-143: every requested field and
\* every search field is an attribute, None when the remote left it out)
FindResults ==
    [{"Modality", "PatientName", "StudyDate", "PatientBirthDate"} ->
        {None, "a"}]

\* csv.writer writes None as the empty string and a string as it is
csv_str(v) == IF v = None THEN "" ELSE v

\* DictWriter.writerow: the value of each column of fieldnames, in order
writerow(fieldnames, rowdict) ==
    [i \in 1 .. Len(fieldnames) |-> csv_str(rowdict[fieldnames[i]])]

\* lines 315-330 and 377-392: fields = _SEARCH_FIELDS + dicom_fields; the
\* header is written, then a row for each result the generator yields.  The
\* file is the sequence of its rows.
find2csv(dicom_fields, results) ==
    LET fields == SEARCH_FIELDS \o dicom_fields IN
    <<fields>> \o
    [i \in 1 .. Len(results) |->
        writerow(fields, [f \in {fields[k] : k \in 1 .. Len(fields)} |->
                             results[i][f]])]

InitFind2csv ==
    /\ call \in {"patient_find2csv", "study_find2csv"}
    /\ \E n \in 0 .. MaxRecords :
         arg \in [dicom_fields : FieldLists, results : [1 .. n -> FindResults]]

Call_find2csv ==
    /\ UNCHANGED notCall
    /\ call \in {"patient_find2csv", "study_find2csv"} /\ ret = <<>>
    /\ ret' = <<find2csv(arg.dicom_fields, arg.results)>>
    /\ UNCHANGED <<call, arg>>

\* cli/net.py lines 129-174, with move.query_level as the configuration
\* holds it (config.py 149-151, use_enum_values: the value of the QueryLevel
\* member, "PATIENT" or "STUDY"): the function that is given the resources
move_cli(can_move, query_level) ==
    IF ~ can_move THEN "ClickException"
    ELSE IF query_level = "patient" THEN "move_patients"
    ELSE "move_studies"

InitMoveCli ==
    /\ call = "move_cli"
    /\ arg \in [can_move : BOOLEAN, query_level : {"PATIENT", "STUDY"}]

Call_move_cli ==
    /\ UNCHANGED notCall
    /\ call = "move_cli" /\ ret = <<>>
    /\ ret' = <<move_cli(arg.can_move, arg.query_level)>>
    /\ UNCHANGED <<call, arg>>

InitCall ==
    /\ NetIdle
    /\ ScpIdle
    /\ ParseIdle
    /\ StoreIdle
    /\ (InitDest \/ InitFind2csv \/ InitMoveCli)
    /\ ret = <<>>

NextCall ==
    \/ Call_dest
    \/ Call_find2csv
    \/ Call_move_cli

SpecCall == InitCall /\ [][NextCall]_vars

\* the components put one after the other, a separator before each
RECURSIVE Concat(_, _)
Concat(a, p) ==
    IF p = <<>> THEN a ELSE Concat(a \o <<sep>> \o Head(p), Tail(p))

\* <root>/<PatientID>/<StudyInstanceUID>/<SeriesInstanceUID>/<SOPInstanceUID>.dcm
\* and its shorter forms
PathTemplate(root, sort, ds) ==
    (IF sort = "PATIENT"
     THEN Concat(root, <<ds.PatientID, ds.StudyInstanceUID,
                         ds.SeriesInstanceUID, ds.SOPInstanceUID>>)
     ELSE IF sort = "STUDY"
     THEN Concat(root, <<ds.StudyInstanceUID, ds.SeriesInstanceUID,
                         ds.SOPInstanceUID>>)
     ELSE Concat(root, <<ds.SOPInstanceUID>>))
    \o <<".", "d", "c", "m">>

\* a path with each run of separators taken as one separator
RECURSIVE SamePathAs(_)
SamePathAs(path) ==
    IF Len(path) < 2 THEN path
    ELSE IF path[1] = sep /\ path[2] = sep THEN SamePathAs(Tail(path))
    ELSE <<path[1]>> \o SamePathAs(Tail(path))

\* C21: the path computed for a dataset names the same file as
\* <root>/<PatientID>/<StudyInstanceUID>/<SeriesInstanceUID>/<SOPInstanceUID>.dcm
\* under PATIENT, <root>/<StudyInstanceUID>/<SeriesInstanceUID>/
\* <SOPInstanceUID>.dcm under STUDY and <root>/<SOPInstanceUID>.dcm under
\* IMAGE.
Claim_C21_PathTemplate ==
    (call = "dest" /\ ret # <<>>) =>
        SamePathAs(ret[1]) =
            SamePathAs(PathTemplate(data_dir, arg.sort_by, arg.ds))

\* the file has been written by find2csv
Written == call \in {"patient_find2csv", "study_find2csv"} /\ ret # <<>>

\* csv.DictReader: the rows after the header, each as the value of every
\* name of the header (of two columns of one name, the last one)
DictReader(file) ==
    LET header == file[1]
        names == {header[k] : k \in 1 .. Len(header)}
        last(nm) == CHOOSE k \in 1 .. Len(header) :
                       /\ header[k] = nm
                       /\ \A j \in k + 1 .. Len(header) : header[j] # nm
    IN  [i \in 1 .. Len(file) - 1 |->
            [nm \in names |-> file[i + 1][last(nm)]]]

\* C24: the file that patient_find2csv or study_find2csv wrote has a header
\* row in which no field name appears twice and which holds the search
\* fields and the requested fields, and one row for each record the query
\* yielded, in order; read back, a row gives for each field the value of
\* its record, as a string.
Claim_C24_HeaderAndRows ==
    Written =>
        LET file == ret[1]
            header == file[1]
        IN  /\ \A j, k \in 1 .. Len(header) : header[j] = header[k] => j = k
            /\ {header[k] : k \in 1 .. Len(header)} =
                   {SEARCH_FIELDS[k] : k \in 1 .. Len(SEARCH_FIELDS)} \cup
                   {arg.dicom_fields[k] : k \in 1 .. Len(arg.dicom_fields)}
            /\ Len(file) = 1 + Len(arg.results)
            /\ \A i \in 1 .. Len(arg.results) :
                   \A k \in 1 .. Len(header) :
                       DictReader(file)[i][header[k]] =
                           csv_str(arg.results[i][header[k]])

\* C30: move_cli gives the resources to move_patients exactly when the
\* configured query level is PATIENT, and to move_studies otherwise.
Claim_C30_MoveCliLevel ==
    (call = "move_cli" /\ ret # <<>> /\ arg.can_move) =>
        ret[1] = IF arg.query_level = "PATIENT" THEN "move_patients"
                 ELSE "move_studies"

(***************************************************************************)
(* SpecCrud: calls of add_image and add_found_study on one session         *)
(* (db/crud.py).  call is "crud", arg the calls made so far, ret what each *)
(* returned.                                                               *)
(***************************************************************************)
InitCrud ==
    /\ NetIdle
    /\ ScpIdle
    /\ ParseIdle
    /\ sort_by = "PATIENT"
    /\ has_session = TRUE
    /\ callbacks = <<>>
    /\ db = EmptyDb
    /\ HandlersIdle
    /\ call = "crud"
    /\ arg = <<>>
    /\ ret = <<>>

\* add_image(session, dcm): Image, None, or the exception that is raised
Crud_add_image ==
    /\ UNCHANGED <<netVars, scpVars, calls, parseVars, call>>
    /\ call = "crud" /\ Len(arg) < MaxCrudCalls
    /\ \E ds \in Datasets :
         LET r == add_image(db, ds) IN
         /\ db' = r.db
         /\ arg' = Append(arg, [fn |-> "add_image", dcm |-> ds])
         /\ ret' = Append(ret, IF r.raised THEN "IntegrityError"
                               ELSE IF r.image THEN "Image" ELSE "None")
    /\ UNCHANGED <<sort_by, has_session, callbacks, disk, nReceptions, h_pc,
                   h_ds, h_written, h_cb, h_started, log>>

\* add_found_study(session, dcm): StudyFind, None, or the exception
Crud_add_found_study ==
    /\ UNCHANGED <<netVars, scpVars, calls, parseVars, call>>
    /\ call = "crud" /\ Len(arg) < MaxCrudCalls
    /\ \E ds \in Datasets :
         LET r == add_found_study(db, ds) IN
         /\ db' = r.db
         /\ arg' = Append(arg, [fn |-> "add_found_study", dcm |-> ds])
         /\ ret' = Append(ret, IF r.raised THEN "IntegrityError"
                               ELSE IF r.study_find THEN "StudyFind"
                               ELSE "None")
    /\ UNCHANGED <<sort_by, has_session, callbacks, disk, nReceptions, h_pc,
                   h_ds, h_written, h_cb, h_started, log>>

NextCrud ==
    \/ Crud_add_image
    \/ Crud_add_found_study

SpecCrud == InitCrud /\ [][NextCrud]_vars

\* the identifier that call i is about
KeyOf(i) == IF arg[i].fn = "add_image" THEN arg[i].dcm.SOPInstanceUID
            ELSE arg[i].dcm.StudyInstanceUID

\* an earlier call of the same function was about the identifier of call i
Repeated(i) ==
    \E j \in 1 .. i - 1 : arg[j].fn = arg[i].fn /\ KeyOf(j) = KeyOf(i)

\* C22: in any sequence of calls of add_image and add_found_study on an
\* empty database, no call raises, a call for an identifier that was
\* recorded by an earlier call returns None and every other call returns
\* its record, and the images and studies_find tables hold exactly one
\* record for each identifier the calls named.
Thm_C22_DuplicateIsNoOp ==
    call = "crud" =>
        /\ \A i \in 1 .. Len(arg) :
               ret[i] = IF Repeated(i) THEN "None"
                        ELSE IF arg[i].fn = "add_image" THEN "Image"
                        ELSE "StudyFind"
        /\ \A i \in 1 .. Len(arg) :
               IF arg[i].fn = "add_image"
               THEN Count(db.images, KeyOf(i)) = 1
               ELSE Count(db.studies_find, KeyOf(i)) = 1
        /\ Len(db.images) =
               Cardinality({KeyOf(i) : i \in {k \in 1 .. Len(arg) :
                                               arg[k].fn = "add_image"}})
        /\ Len(db.studies_find) =
               Cardinality({KeyOf(i) : i \in {k \in 1 .. Len(arg) :
                                               arg[k].fn = "add_found_study"}})

\* C22 witness: add_image and add_found_study were each called twice for
\* the same identifier; the second calls returned None.
Wit_C22 ==
    /\ call = "crud"
    /\ \E i, j \in 1 .. Len(arg) :
         /\ arg[i].fn = "add_image" /\ Repeated(i) /\ ret[i] = "None"
         /\ arg[j].fn = "add_found_study" /\ Repeated(j) /\ ret[j] = "None"
    /\ Len(db.images) = 1 /\ Len(db.studies_find) = 1

(***************************************************************************)
(* Further properties of parse_dir, checked under SpecParse and            *)
(* SpecParseLive.                                                          *)
(***************************************************************************)
\* parse_dir has returned or raised after its finally clause, with every
\* thread it started ended
Terminated ==
    /\ ParseEnded
    /\ \A w \in Workers : w_pc[w] \in {"none", "exit"}
    /\ c_pc = "exit"

\* C23: a call of parse_dir that passes the validation (nb_threads >= 1)
\* ends: in the end every worker and the consumer have exited and parse_dir
\* has returned, or raised what the enqueueing raised.
Thm_C23_Terminates == (nb_threads >= 1) ~> Terminated

\* C23 witness: parse_dir ended although a file failed to parse and the
\* enqueueing of the next one raised.
Wit_C23 ==
    /\ Terminated
    /\ p_exc = "OSError"
    /\ nEnqueued >= 1
    /\ \E f \in 1 .. nEnqueued : ~ src_files[f]
    /\ worker_queue = <<>>

(***************************************************************************)
(* Further properties of echo and move, checked under SpecNet and          *)
(* SpecNetLive.                                                            *)
(***************************************************************************)
\* C25: when echo has ended, by a return or by an exception, an association
\* that was established has been released, and none is left open.
Claim_C25_EchoReleases ==
    (op = "echo" /\ Ended /\ assoc.was_established) =>
        /\ assoc.released = 1
        /\ ~ assoc.is_established
        /\ nOpen = 0

\* the time of day t is inside the daily window that start_time and
\* end_time name (every time is, when they are unset or equal)
InWindow(t) ==
    IF start_time = <<>> \/ start_time = end_time THEN TRUE
    ELSE IF start_time[1] < end_time[1]
         THEN start_time[1] < t /\ t < end_time[1]
         ELSE t > start_time[1] \/ t < end_time[1]

\* move is at the gate with a resource left to request
AtGate == op = "move" /\ pc = "gate" /\ idx <= Len(resources)

\* C26: move goes on to open the association for a resource only from the
\* gate and at a time inside the window; an association is opened and a
\* request sent only in that step; at the gate, at a time outside the
\* window, no association is opened and nothing is sent, and after a sleep
\* of one polling period move is at the gate again.
Thm_C26_GateBeforeAssociate ==
    [][op = "move" =>
         /\ (pc' = "associate" /\ pc # "associate") =>
                (AtGate /\ InWindow(now) /\ now' = now)
         /\ (nAssoc' # nAssoc \/ sent' # sent) =>
                (pc = "associate" /\ InWindow(now))
         /\ (AtGate /\ ~ InWindow(now)) =>
                /\ pc' = "gate"
                /\ nAssoc' = nAssoc /\ sent' = sent /\ assoc' = assoc
                /\ now' = sleep(now)]_vars

\* C26 witness: move waits at the gate for its second resource, at a time
\* outside the window, the first one having been requested.
Wit_C26 ==
    /\ AtGate /\ idx = 2
    /\ ~ InWindow(now)
    /\ Len(sent) = 1 /\ nAssoc = 1

\* C27: with a daily window configured, start_time different from
\* end_time, a move that is at the gate with a resource left to request goes
\* on, in the end, to open the association for it.
Claim_C27_GateOpens ==
    (AtGate /\ start_time # <<>> /\ start_time # end_time) ~>
        (pc = "associate")

(***************************************************************************)
(* Properties of the consumer of parse_dir, checked under SpecParse.       *)
(***************************************************************************)
\* C28: for every nb_threads, a call of the callback is a step of the
\* consumer thread: it is made with the result the consumer took, while no
\* worker and not the calling thread takes a step, and the consumer is back
\* at its queue when the call has returned; so the calls are made one after
\* the other.
Thm_C28_SingleConsumer ==
    [][sunk' # sunk =>
         /\ c_pc = "callback" /\ c_pc' = "get"
         /\ sunk' = Append(sunk, c_result)
         /\ w_pc' = w_pc
         /\ p_pc' = p_pc
         /\ consumer_queue' = consumer_queue]_vars

\* C28 witness: with two workers, of which one is parsing a file, the
\* consumer has passed a first result to the callback.
Wit_C28 ==
    /\ nb_threads = 2
    /\ Len(sunk) = 1
    /\ \E w \in Workers : w_pc[w] = "parse"

\* C29: with nb_threads = 1 the callback is called with the results in the
\* order in which their files were enqueued (a file is numbered by its
\* place in that order), no file twice, and never with a file whose parse
\* fails.
Thm_C29_OrderWithOneThread ==
    nb_threads = 1 =>
        /\ \A i, j \in 1 .. Len(sunk) : i < j => sunk[i] < sunk[j]
        /\ \A i \in 1 .. Len(sunk) : sunk[i] <= nEnqueued /\ src_files[sunk[i]]
        /\ \A i, j \in 1 .. Len(produced) : i < j => produced[i] < produced[j]

\* C29 witness: one worker, two files that parse; parse_dir has returned
\* and the callback was called for the first, then for the second.
Wit_C29 ==
    /\ nb_threads = 1
    /\ p_pc = "returned"
    /\ sunk = <<1, 2>>

====
